---- MODULE Spec2Model ----
(***************************************************************************)
(* Model of the PRN value parser (src/utils/mod.rs), its PRNType registry  *)
(* and the global-flag check of CliCommands::run (src/api/mod.rs).         *)
(*                                                                         *)
(* Strings are TLA+ strings handled character by character (Len, SubSeq,   *)
(* \o), so splitting on ':' and UUID parsing are computed, not assumed.    *)
(***************************************************************************)
EXTENDS Integers, Sequences, FiniteSets, TLC

VARIABLES
    self0,          \* PRNValueParser.0 : the expected PRNType, or None before new()
    flag,           \* the Arg the parser is attached to (None: no Arg)
    value,          \* the OsStr handed to the last parse_ref call
    result,         \* what the last parse_ref call returned
    prevResult,     \* what the call before returned, when it was given the same value
    tag,            \* the String handed to the last PRNType::try_from call
    looked,         \* what that call returned
    global_options, \* GlobalOptions { api_key, organization_name }
    command,        \* the CliCommands value run() is called on
    pc,             \* position of the process: "main", "subcommand", "returned", "exited"
    stderr,         \* sequence of buffers printed to standard error
    exit_code,      \* process exit status once exited
    started         \* sequence of subcommands whose run() was entered

vars == <<self0, flag, value, result, prevResult, tag, looked,
          global_options, command, pc, stderr, exit_code, started>>

prnVars == <<self0, flag, value, result, prevResult>>
registryVars == <<tag, looked>>
cliVars == <<global_options, command, pc, stderr, exit_code, started>>

None == "<none>"

-----------------------------------------------------------------------------
(* Bounds of the model *)

\* longest candidate generated, in ':'-separated segments
MaxSegments == 6

-----------------------------------------------------------------------------
(* String helpers *)

CharAt(s, i) == SubSeq(s, i, i)

\* str::split(':') : the segments between the colons, empty ones included
split(s) ==
    LET colons == {i \in 1..Len(s) : CharAt(s, i) = ":"}
        n == Cardinality(colons)
        \* position of the j-th colon; 0 and Len(s) + 1 bracket the string
        pos(j) == IF j = 0 THEN 0
                  ELSE IF j = n + 1 THEN Len(s) + 1
                  ELSE CHOOSE i \in colons : Cardinality({k \in colons : k < i}) = j - 1
    IN  [j \in 1..(n + 1) |-> SubSeq(s, pos(j - 1) + 1, pos(j) - 1)]

RECURSIVE Join(_)
Join(segs) ==
    IF Len(segs) = 0 THEN ""
    ELSE IF Len(segs) = 1 THEN segs[1]
    ELSE segs[1] \o ":" \o Join(Tail(segs))

-----------------------------------------------------------------------------
(* uuid::Uuid::try_parse, as the uuid crate parses text: 32 hex digits, or  *)
(* the hyphenated 8-4-4-4-12 form, bare, in braces or after "urn:uuid:".    *)
(* Version and variant bits are not looked at.                              *)

HexDigits == {"0", "1", "2", "3", "4", "5", "6", "7", "8", "9",
              "a", "b", "c", "d", "e", "f", "A", "B", "C", "D", "E", "F"}

HyphenAt == {9, 14, 19, 24}

parse_simple(s) ==
    /\ Len(s) = 32
    /\ \A i \in 1..32 : CharAt(s, i) \in HexDigits

parse_hyphenated(s) ==
    /\ Len(s) = 36
    /\ \A i \in HyphenAt : CharAt(s, i) = "-"
    /\ \A i \in (1..36) \ HyphenAt : CharAt(s, i) \in HexDigits

Uuid_try_parse(s) ==
    CASE Len(s) = 32 -> parse_simple(s)
      [] Len(s) = 36 -> parse_hyphenated(s)
      [] Len(s) = 38 -> /\ CharAt(s, 1) = "{"
                        /\ CharAt(s, 38) = "}"
                        /\ parse_hyphenated(SubSeq(s, 2, 37))
      [] Len(s) = 45 -> /\ SubSeq(s, 1, 9) = "urn:uuid:"
                        /\ parse_hyphenated(SubSeq(s, 10, 45))
      [] OTHER -> FALSE

-----------------------------------------------------------------------------
(* PRNType and TryFrom<String> for PRNType *)

\* the enum's variants, named as #[derive(Debug)] prints them
PRNType == {"APIKey", "Artifact", "ArtifactVersion", "AuditLog", "Binary",
            "BinaryPart", "BinarySignature", "Bundle", "BundleOverride",
            "CACertificate", "Cohort", "Deployment", "Device",
            "DeviceCertificate", "Event", "Firmware", "OrgUser",
            "Organization", "Product", "Release", "ReleaseClaim",
            "SigningKey", "Tunnel", "User", "WebConsoleShell", "Webhook",
            "UserToken"}

Ok(v) == [ok |-> TRUE, v |-> v]
Err(e) == [ok |-> FALSE, v |-> e]

\* the arms of the match in try_from, in source order: <<pattern, variant>>
TryFromArms ==
    << <<"api_key", "APIKey">>,
       <<"artifact", "Artifact">>,
       <<"artifact_version", "ArtifactVersion">>,
       <<"audit_log", "AuditLog">>,
       <<"binary", "Binary">>,
       <<"binary_part", "BinaryPart">>,
       <<"binary_signature", "BinarySignature">>,
       <<"bundle", "Bundle">>,
       <<"bundle_override", "BundleOverride">>,
       <<"ca_certificate", "CACertificate">>,
       <<"cohort", "Cohort">>,
       <<"deployment", "Deployment">>,
       <<"device", "Device">>,
       <<"device_certificate", "DeviceCertificate">>,
       <<"event", "Event">>,
       <<"firmware", "Firmware">>,
       <<"org_user", "OrgUser">>,
       <<"organization", "Organization">>,
       <<"product", "Product">>,
       <<"release", "Release">>,
       <<"release_claim", "ReleaseClaim">>,
       <<"signing_key", "SigningKey">>,
       <<"tunnel", "Tunnel">>,
       <<"user", "User">>,
       <<"web_console_shell", "WebConsoleShell">>,
       <<"webhook", "Webhook">>,
       <<"user_token", "UserToken">> >>

\* the first arm whose pattern is p, or 0 for the `_` arm
FirstArm(p) ==
    LET hits == {i \in DOMAIN TryFromArms : TryFromArms[i][1] = p}
    IN  IF hits = {} THEN 0 ELSE CHOOSE i \in hits : \A j \in hits : i <= j

Lower == "abcdefghijklmnopqrstuvwxyz"
Upper == "ABCDEFGHIJKLMNOPQRSTUVWXYZ"

\* s with the letters of `from` replaced by the letters of `to` at the same index
RECURSIVE MapCase(_, _, _)
MapCase(s, from, to) ==
    IF Len(s) = 0 THEN ""
    ELSE LET c == CharAt(s, 1)
             at == {i \in 1..Len(from) : CharAt(from, i) = c}
         IN  (IF at = {} THEN c ELSE CharAt(to, CHOOSE i \in at : TRUE))
             \o MapCase(SubSeq(s, 2, Len(s)), from, to)

to_lowercase(s) == MapCase(s, Upper, Lower)
to_uppercase(s) == MapCase(s, Lower, Upper)

\* faulty variant of try_from: the tag is matched without regard to letter case
try_from_ignoring_case(t) ==
    LET i == FirstArm(to_lowercase(t))
    IN  IF i = 0 THEN Err("Invalid PRN type") ELSE Ok(TryFromArms[i][2])

try_from(t) ==
    LET i == FirstArm(t)
    IN  IF i = 0 THEN Err("Invalid PRN type") ELSE Ok(TryFromArms[i][2])

-----------------------------------------------------------------------------
(* prn_error and PRNValueParser::parse_ref *)

NoErr == [kind |-> None, InvalidArg |-> None, InvalidValue |-> None]

\* no call made yet
NoResult == [ok |-> FALSE, value |-> None, at |-> "never", err |-> NoErr]

\* clap::Error of kind ValueValidation; the message travels in the
\* InvalidValue context.  `at` names the return statement that produced it.
prn_error(arg, error, at) ==
    [ok |-> FALSE,
     value |-> None,
     at |-> at,
     err |-> [kind |-> "ValueValidation", InvalidArg |-> arg, InvalidValue |-> error]]

\* faulty variant of Accept: the resource id is returned in place of the
\* whole value
Accept_resource_id(v) ==
    [ok |-> TRUE, value |-> split(v)[Len(split(v))], at |-> "ok", err |-> NoErr]

\* Ok(value)
Accept(v) == [ok |-> TRUE, value |-> v, at |-> "ok", err |-> NoErr]

\* faulty variant of parse_ref_3: the expected kind is not looked at
parse_ref_3_any_kind(kind, arg, segs, v) ==
    IF ~Uuid_try_parse(segs[3])
    THEN prn_error(arg, "Invalid PRN UUID, expected 'organization' UUID in PRN", "uuid3")
    ELSE Accept(v)

\* faulty variant of parse_ref_3: the UUID message of the 5-segment arm is used
parse_ref_3_generic_uuid_message(kind, arg, segs, v) ==
    IF kind # "Organization"
    THEN prn_error(arg, "Invalid PRN type", "kind3")
    ELSE IF ~Uuid_try_parse(segs[3])
    THEN prn_error(arg, "Invalid PRN UUID, expected valid UUID in PRN", "uuid3")
    ELSE Accept(v)

\* the 3-segment arm of the match
parse_ref_3(kind, arg, segs, v) ==
    IF kind # "Organization"
    THEN prn_error(arg, "Invalid PRN type", "kind3")
    ELSE IF ~Uuid_try_parse(segs[3])
    THEN prn_error(arg, "Invalid PRN UUID, expected 'organization' UUID in PRN", "uuid3")
    ELSE Accept(v)

\* the 4-segment arm of the match
parse_ref_4(kind, arg, segs, v) ==
    IF kind # "User" \/ kind # "UserToken"
    THEN prn_error(arg, "Invalid PRN type", "kind4")
    ELSE LET prn_type == try_from(segs[3]) IN
         IF ~prn_type.ok
         THEN prn_error(arg, "Invalid PRN type", "tag4_unknown")
         ELSE IF prn_type.v # "User" \/ prn_type.v # "UserToken"
         THEN prn_error(arg, "Invalid PRN type, expected 'user' or 'user_token' PRN",
                        "tag4_mismatch")
         ELSE Accept(v)

\* faulty variant of parse_ref_5: the resource UUID is not parsed
parse_ref_5_resource_unchecked(kind, arg, segs, v) ==
    IF ~Uuid_try_parse(segs[3])
    THEN prn_error(arg, "Invalid PRN UUID, expected valid UUID in PRN", "uuid5_org")
    ELSE LET prn_type == try_from(segs[4]) IN
         IF ~prn_type.ok
         THEN prn_error(arg, "Invalid PRN type", "tag5_unknown")
         ELSE IF kind # prn_type.v
         THEN prn_error(arg, "Invalid PRN type, expected '" \o kind \o "' PRN",
                        "tag5_mismatch")
         ELSE Accept(v)

\* faulty variant of parse_ref_5: the tag is checked before the organization UUID
parse_ref_5_tag_first(kind, arg, segs, v) ==
    LET prn_type == try_from(segs[4]) IN
    IF ~prn_type.ok
    THEN prn_error(arg, "Invalid PRN type", "tag5_unknown")
    ELSE IF kind # prn_type.v
    THEN prn_error(arg, "Invalid PRN type, expected '" \o kind \o "' PRN",
                   "tag5_mismatch")
    ELSE IF ~Uuid_try_parse(segs[3])
    THEN prn_error(arg, "Invalid PRN UUID, expected valid UUID in PRN", "uuid5_org")
    ELSE IF ~Uuid_try_parse(segs[5])
    THEN prn_error(arg, "Invalid PRN UUID, expected valid UUID in PRN", "uuid5_res")
    ELSE Accept(v)

\* the 5-segment arm of the match
parse_ref_5(kind, arg, segs, v) ==
    IF ~Uuid_try_parse(segs[3])
    THEN prn_error(arg, "Invalid PRN UUID, expected valid UUID in PRN", "uuid5_org")
    ELSE LET prn_type == try_from(segs[4]) IN
         IF ~prn_type.ok
         THEN prn_error(arg, "Invalid PRN type", "tag5_unknown")
         ELSE IF kind # prn_type.v
         THEN prn_error(arg, "Invalid PRN type, expected '" \o kind \o "' PRN",
                        "tag5_mismatch")
         ELSE IF ~Uuid_try_parse(segs[5])
         THEN prn_error(arg, "Invalid PRN UUID, expected valid UUID in PRN", "uuid5_res")
         ELSE Accept(v)

\* faulty variant of parse_ref: the version segment is not compared
parse_ref_version_unchecked(kind, arg, v) ==
    LET segs == split(v)
        prn_length == Len(segs)
    IN  IF ~(prn_length \in 3..5)
        THEN prn_error(arg, "Invalid PRN", "count")
        ELSE IF segs[1] # "prn"
        THEN prn_error(arg, "Invalid PRN", "prn")
        ELSE CASE prn_length = 3 -> parse_ref_3(kind, arg, segs, v)
               [] prn_length = 4 -> parse_ref_4(kind, arg, segs, v)
               [] prn_length = 5 -> parse_ref_5(kind, arg, segs, v)

parse_ref(kind, arg, v) ==
    LET segs == split(v)
        prn_length == Len(segs)
    IN  IF ~(prn_length \in 3..5)
        THEN prn_error(arg, "Invalid PRN", "count")
        ELSE IF segs[1] # "prn"
        THEN prn_error(arg, "Invalid PRN", "prn")
        ELSE IF segs[2] # "1"
        THEN prn_error(arg, "Invalid PRN", "version")
        ELSE CASE prn_length = 3 -> parse_ref_3(kind, arg, segs, v)
               [] prn_length = 4 -> parse_ref_4(kind, arg, segs, v)
               [] prn_length = 5 -> parse_ref_5(kind, arg, segs, v)

-----------------------------------------------------------------------------
(* Inputs: the candidate strings handed to parse_ref *)

U1 == "6f1bd4a9-3c5e-4d2a-9b7f-0123456789ab"
U2 == "A0EEBC99-9C0B-4EF8-BB6D-6BB9BD380A11"
NilUuid == "00000000-0000-0000-0000-000000000000"
SimpleUuid == "6f1bd4a93c5e4d2a9b7f0123456789ab"
BracedUuid == "{" \o U1 \o "}"

\* texts Uuid::try_parse rejects: wrong length, a non-hex digit, a misplaced
\* or replaced hyphen, an unclosed brace
NotUuids == {"not-a-uuid", "",
             "6f1bd4a9-3c5e-4d2a-9b7f-0123456789a",
             "6f1bd4a9-3c5e-4d2a-9b7f-0123456789ag",
             "6f1bd4a93-c5e-4d2a-9b7f-0123456789ab",
             "6f1bd4a9_3c5e_4d2a_9b7f_0123456789ab",
             "{" \o U1 \o ")"}

Uuids == {U1, U2, NilUuid, SimpleUuid, BracedUuid}

Tags == {TryFromArms[i][1] : i \in DOMAIN TryFromArms}

\* tags probed in every combination with good and bad UUIDs
ProbeTags == {"device", "cohort", "organization", "user", "user_token",
              "Device", "DEVICE", "User", "bogus", "", " device"}

Heads == {<<"prn", "1">>}
BadHeads == {<<"PRN", "1">>, <<"prn", "2">>, <<"prn", "01">>, <<"", "1">>,
             <<"prn", "">>, <<"urn", "1">>, <<"PRN", "2">>}

Tails3 == {<<x>> : x \in Uuids \cup NotUuids \cup {"organization", "user"}}
Tails4 == {<<t, u>> : t \in ProbeTags, u \in {U1, "not-a-uuid"}}
Tails5 == {<<o, t, r>> : o \in {U1, "not-a-uuid"}, t \in ProbeTags, r \in {U2, "not-a-uuid"}}
            \cup {<<U1, t, U2>> : t \in Tags}
            \cup {<<SimpleUuid, "firmware", BracedUuid>>, <<NilUuid, "product", NilUuid>>}

RECURSIVE Repeat(_, _)
Repeat(x, n) == IF n <= 0 THEN <<>> ELSE <<x>> \o Repeat(x, n - 1)

\* more than five segments, up to MaxSegments
TailsLong == {<<U1, "device", U2>> \o Repeat(x, n) : x \in {"", "x"}, n \in 1..(MaxSegments - 5)}

Candidates ==
    {Join(h \o t) : h \in Heads, t \in Tails3 \cup Tails4 \cup Tails5 \cup TailsLong}
    \cup {Join(h \o t) : h \in BadHeads,
                          t \in {<<U1>>, <<"user", U1>>, <<U1, "device", U2>>}}
    \cup {"", "prn", "prn:1", ":", "prn:1" \o U1, U1}

\* the Arg the value parser is attached to, as Arg::to_string() prints it;
\* None when parse_ref is called without one
Args == {None, "--prn <PRN>"}

-----------------------------------------------------------------------------
(* Initial state: nothing constructed, nothing looked up, no process running *)

InitPrn ==
    /\ self0 = None
    /\ flag = None
    /\ value = None
    /\ result = NoResult
    /\ prevResult = NoResult

InitRegistry ==
    /\ tag = None
    /\ looked = Err(None)

IdleCli ==
    /\ global_options = [api_key |-> None, organization_name |-> None]
    /\ command = None
    /\ pc = "idle"
    /\ stderr = <<>>
    /\ exit_code = None
    /\ started = <<>>

Init == InitPrn /\ InitRegistry /\ IdleCli

-----------------------------------------------------------------------------
(* Specification of the value parser: one parser, attached to one Arg, is   *)
(* given a value and may be given that value again.                         *)

\* PRNValueParser::new(prn_type), attached to an Arg by the command builder
New(prn_type, a) ==
    /\ self0 = None
    /\ self0' = prn_type
    /\ flag' = a
    /\ UNCHANGED <<value, result, prevResult, registryVars, cliVars>>

\* <PRNValueParser as TypedValueParser>::parse_ref(&self, cmd, arg, v), first call
ParseRef(v) ==
    /\ self0 # None
    /\ value = None
    /\ value' = v
    /\ result' = parse_ref(self0, flag, v)
    /\ prevResult' = NoResult
    /\ UNCHANGED <<self0, flag, registryVars, cliVars>>

\* parse_ref called once more with the value it was given before
ParseRefAgain ==
    /\ self0 # None
    /\ value # None
    /\ prevResult = NoResult
    /\ result' = parse_ref(self0, flag, value)
    /\ prevResult' = result
    /\ UNCHANGED <<self0, flag, value, registryVars, cliVars>>

Next ==
    \/ \E k \in PRNType, a \in Args : New(k, a)
    \/ \E c \in Candidates : ParseRef(c)
    \/ ParseRefAgain

Spec == Init /\ [][Next]_vars

-----------------------------------------------------------------------------
(* Specification of the registry: PRNType::try_from applied to strings *)

\* strings handed to try_from: the tags, and near misses of each of them
TagUniverse ==
    Tags
    \cup {to_uppercase(t) : t \in Tags}
    \cup PRNType
    \cup {t \o "s" : t \in Tags}
    \cup {"", "bogus", " device", "device ", "prn", "user-token", "usertoken"}

\* PRNType::try_from(value)
TryFrom(t) ==
    /\ tag' = t
    /\ looked' = try_from(t)
    /\ UNCHANGED <<prnVars, cliVars>>

NextRegistry == \E t \in TagUniverse : TryFrom(t)

SpecRegistry == Init /\ [][NextRegistry]_vars

-----------------------------------------------------------------------------
(* CliCommands::run and the StyledStr report *)

\* variants of ApiCommand
ApiCommand == {"Artifacts", "Binaries", "BinaryParts", "BinarySignatures",
               "Cohorts", "CaCertificates", "Deployments", "Devices",
               "DeviceCertificates", "Firmwares", "Organizations", "Products",
               "SigningKeys", "Users"}

\* variants of CliCommands, ApiCommand flattened
CliCommands == ApiCommand \cup {"Upgrade"}

\* exit status of print_data_err
DATAERR == 65

\* StyledStr::push_str : an empty message is dropped
push_str(messages, style, msg) ==
    IF msg # "" THEN Append(messages, <<style, msg>>) ELSE messages

\* the ColorSpec print_err sets for a style
ColorSpec(style) ==
    CASE style = "Success" -> [fg |-> "Green", bold |-> FALSE]
      [] style = "Warning" -> [fg |-> "Yellow", bold |-> FALSE]
      [] style = "Error" -> [fg |-> "Red", bold |-> TRUE]
      [] OTHER -> [fg |-> None, bold |-> FALSE]

\* StyledStr::print_err : the buffer printed to stderr, one write per message
\* and a closing "\r\n"
print_err(messages) ==
    [i \in 1..Len(messages) |->
        [color |-> ColorSpec(messages[i][1]), text |-> messages[i][2]]]
    \o <<[color |-> IF messages = <<>> THEN ColorSpec(None)
                     ELSE ColorSpec(messages[Len(messages)][1]),
          text |-> "\r\n"]>>

\* faulty variant of error_vec: the organization name is only looked at when
\* the API key is present
error_vec_else_if(options) ==
    IF options.api_key = None THEN <<"--api-key">>
    ELSE IF options.organization_name = None THEN <<"--organization-name">>
    ELSE <<>>

\* error_vec as run() fills it
error_vec(options) ==
    (IF options.api_key = None THEN <<"--api-key">> ELSE <<>>)
    \o (IF options.organization_name = None THEN <<"--organization-name">> ELSE <<>>)

RECURSIVE push_each(_, _)
\* the for loop over error_vec
push_each(error, vec) ==
    IF vec = <<>> THEN error
    ELSE push_each(push_str(error, "Success", "\t" \o Head(vec) \o "\r\n"), Tail(vec))

\* the StyledStr run() builds when error_vec is not empty
missing_report(vec) ==
    LET e0 == <<>>
        e1 == push_str(e0, "Error", "error: ")
        e2 == push_str(e1, None,
                       "The following arguments are required at the global level:\r\n")
    IN  push_each(e2, vec)

ApiKeys == {None, "key"}
OrganizationNames == {None, "", "acme"}

\* a process about to call run() on its parsed command line
InitCli ==
    /\ InitPrn
    /\ InitRegistry
    /\ global_options \in [api_key : ApiKeys, organization_name : OrganizationNames]
    /\ command \in CliCommands
    /\ pc = "main"
    /\ stderr = <<>>
    /\ exit_code = None
    /\ started = <<>>

\* CliCommands::run(self, global_options); the subcommand's own run() is
\* entered and returns Ok or Err
Run ==
    /\ pc = "main"
    /\ LET vec == error_vec(global_options) IN
       IF command \in ApiCommand /\ vec # <<>>
       THEN \* error.print_data_err(): print, then std::process::exit(65)
            /\ stderr' = Append(stderr, print_err(missing_report(vec)))
            /\ exit_code' = DATAERR
            /\ pc' = "exited"
            /\ UNCHANGED started
       ELSE /\ started' = Append(started, command)
            /\ \E r \in {"Ok", "Err"} : pc' = "returned_" \o r
            /\ UNCHANGED <<stderr, exit_code>>
    /\ UNCHANGED <<global_options, command, prnVars, registryVars>>

NextCli == Run

SpecCli == InitCli /\ [][NextCli]_vars

-----------------------------------------------------------------------------
(* Properties of the value parser, checked under Spec *)

\* parse_ref has returned for the current value
Called == result.at # "never"

segs == split(value)

\* the candidate starts with the two literals
WellHeaded == Len(segs) >= 2 /\ segs[1] = "prn" /\ segs[2] = "1"

\* the tag that the registry spells a kind with
kindToTag(k) == TryFromArms[CHOOSE i \in DOMAIN TryFromArms : TryFromArms[i][2] = k][1]

\* C1: for every valid UUID u, a parser for User accepts "prn:1:user:" + u and
\* a parser for UserToken accepts "prn:1:user_token:" + u, each returning its
\* input.
C1_FourSegmentFormAccepted ==
    \A u \in Uuids :
        (Called /\ self0 \in {"User", "UserToken"}
                /\ value = "prn:1:" \o kindToTag(self0) \o ":" \o u)
        => (result.ok /\ result.value = value)

\* the number of segments the claim allots to a kind
ArityOf(k) ==
    CASE k = "Organization" -> {3}
      [] k \in {"User", "UserToken"} -> {4}
      [] OTHER -> {5}

\* C2: each expected kind accepts only its own arity: Organization only
\* 3-segment candidates, User and UserToken only 4-segment candidates, every
\* other kind only 5-segment candidates.
C2_OwnArityOnly ==
    (Called /\ result.ok) => Len(segs) \in ArityOf(self0)

\* C3: for an expected kind other than Organization, User and UserToken, a
\* well-headed 5-segment candidate is accepted exactly when segment 3 is a
\* valid UUID, segment 4 is exactly the kind's tag and segment 5 is a valid
\* UUID.
C3_FiveSegmentForm ==
    (Called /\ self0 \notin {"Organization", "User", "UserToken"}
            /\ Len(segs) = 5 /\ WellHeaded)
    => (result.ok <=> /\ Uuid_try_parse(segs[3])
                      /\ segs[4] = kindToTag(self0)
                      /\ Uuid_try_parse(segs[5]))

\* an ordinary kind has accepted a 5-segment candidate
C3_Witness ==
    /\ Called /\ result.ok
    /\ self0 = "Firmware"
    /\ Len(segs) = 5

\* C4: a well-headed 3-segment candidate is accepted exactly when the
\* expected kind is Organization and the third segment is a valid UUID.
C4_ThreeSegmentForm ==
    (Called /\ Len(segs) = 3 /\ WellHeaded)
    => (result.ok <=> (self0 = "Organization" /\ Uuid_try_parse(segs[3])))

\* an Organization parser has accepted a 3-segment candidate
C4_Witness ==
    /\ Called /\ result.ok
    /\ self0 = "Organization"
    /\ Len(segs) = 3

\* C5: an accepted candidate is returned character for character, and
\* validating the same candidate again succeeds with the identical string.
C5_NonNormalizingRepeatable ==
    /\ (Called /\ result.ok) => result.value = value
    /\ prevResult.ok => (result.ok /\ result.value = prevResult.value
                                    /\ result.value = value)

\* a candidate with upper-case hex digits was accepted twice
C5_Witness ==
    /\ prevResult.ok /\ result.ok
    /\ Len(segs) = 5
    /\ segs[5] = U2

\* C6: every accepted candidate splits on ':' into 3, 4 or 5 segments, the
\* first exactly "prn" and the second exactly "1", whatever the expected kind.
C6_AcceptedShape ==
    (Called /\ result.ok) => (Len(segs) \in 3..5 /\ segs[1] = "prn" /\ segs[2] = "1")

\* a Device parser has accepted a candidate
C6_Witness ==
    /\ Called /\ result.ok
    /\ self0 = "Device"

\* the cause, in the taxonomy of the specification, behind each rejecting
\* return statement
CauseOf(at) ==
    CASE at = "count" -> "ArityError"
      [] at = "prn" -> "FormatError"
      [] at = "version" -> "VersionError"
      [] at \in {"kind3", "kind4"} -> "UnsupportedArityForKind"
      [] at \in {"uuid3", "uuid5_org"} -> "InvalidUuid(organization)"
      [] at = "uuid5_res" -> "InvalidUuid(resource)"
      [] at \in {"tag4_unknown", "tag5_unknown"} -> "UnknownTypeTag"
      [] at \in {"tag4_mismatch", "tag5_mismatch"} -> "TypeMismatch"
      [] OTHER -> "none"

\* candidates that between them run into every rejecting check a parser of
\* kind k can reach
CauseSamples(k) ==
    {"prn",
     "PRN:1:" \o U1,
     "prn:2:" \o U1,
     "prn:1:" \o U1,
     "prn:1:not-a-uuid",
     "prn:1:user:" \o U1,
     "prn:1:not-a-uuid:device:" \o U2,
     "prn:1:" \o U1 \o ":bogus:" \o U2,
     "prn:1:" \o U1 \o ":device:" \o U2,
     "prn:1:" \o U1 \o ":cohort:" \o U2,
     "prn:1:" \o U1 \o ":" \o kindToTag(k) \o ":not-a-uuid"}

\* what a parser of kind k attached to a returns for the samples
SampleResults ==
    [k \in PRNType, a \in Args |-> {parse_ref(k, a, c) : c \in CauseSamples(k)}]

\* rejections among the samples of the parser at hand
SampleRejections == {r \in SampleResults[self0, flag] : ~r.ok}

MessageClass(at) ==
    CASE at \in {"count", "prn", "version"} -> "Invalid PRN"
      [] at \in {"kind3", "kind4", "tag4_unknown", "tag5_unknown"} -> "Invalid PRN type"
      [] at = "uuid3" -> "organization UUID"
      [] at \in {"uuid5_org", "uuid5_res"} -> "UUID"
      [] at = "tag4_mismatch" -> "expected user or user_token"
      [] at = "tag5_mismatch" -> "expected kind"
      [] OTHER -> "none"

RuleOrder == <<"count", "prn", "version", "kind3", "uuid3", "kind4", "tag4",
               "uuid5_org", "tag5_known", "tag5_equal", "uuid5_res">>

\* candidate sg breaks rule r for expected kind k
Breaks(r, k, sg) ==
    LET n == Len(sg) IN
    CASE r = "count" -> n \notin 3..5
      [] r = "prn" -> sg[1] # "prn"
      [] r = "version" -> n >= 2 /\ sg[2] # "1"
      [] r = "kind3" -> n = 3 /\ k # "Organization"
      [] r = "uuid3" -> n = 3 /\ ~Uuid_try_parse(sg[3])
      [] r = "kind4" -> n = 4 /\ k \notin {"User", "UserToken"}
      [] r = "tag4" -> n = 4 /\ try_from(sg[3]) \notin {Ok("User"), Ok("UserToken")}
      [] r = "uuid5_org" -> n = 5 /\ ~Uuid_try_parse(sg[3])
      [] r = "tag5_known" -> n = 5 /\ ~try_from(sg[4]).ok
      [] r = "tag5_equal" -> n = 5 /\ try_from(sg[4]) # Ok(k)
      [] r = "uuid5_res" -> n = 5 /\ ~Uuid_try_parse(sg[5])

Broken(k, sg) == {i \in DOMAIN RuleOrder : Breaks(RuleOrder[i], k, sg)}

\* the rule a rejecting return statement enforces
RuleAt(at) ==
    CASE at \in {"tag4_unknown", "tag4_mismatch"} -> "tag4"
      [] at = "tag5_unknown" -> "tag5_known"
      [] at = "tag5_mismatch" -> "tag5_equal"
      [] OTHER -> at

\* C9: a candidate that breaks several rules is rejected by the earliest of
\* them in the order count, "prn", version, then per branch (3: kind, UUID;
\* 4: kind, tag; 5: organization UUID, tag known, tag equal, resource UUID).
C9_FailFastOrder ==
    Called =>
        LET broken == Broken(self0, segs) IN
        Cardinality(broken) >= 2
        => /\ ~result.ok
           /\ \E i \in broken : /\ RuleOrder[i] = RuleAt(result.at)
                                 /\ \A j \in broken : i <= j

\* a Device candidate with a bad organization UUID, an unknown tag and a bad
\* resource UUID was rejected for the organization UUID
C9_Witness ==
    /\ Called /\ self0 = "Device"
    /\ WellHeaded /\ Len(segs) = 5
    /\ Cardinality(Broken(self0, segs)) >= 4
    /\ result.at = "uuid5_org"

-----------------------------------------------------------------------------
(* Properties of the registry, checked under SpecRegistry *)

\* C8: the registry is a bijection between kinds and tags: every kind is
\* produced by exactly one arm, no pattern occurs twice, try_from maps a
\* string to kind k exactly when the string is k's tag, and every other
\* string, a tag in another letter case included, is an error.
C8_RegistryBijection ==
    /\ \A k \in PRNType :
           Cardinality({i \in DOMAIN TryFromArms : TryFromArms[i][2] = k}) = 1
    /\ \A i, j \in DOMAIN TryFromArms :
           TryFromArms[i][1] = TryFromArms[j][1] => i = j
    /\ tag # None =>
           /\ \A k \in PRNType : (looked = Ok(k)) <=> (tag = kindToTag(k))
           /\ looked.ok <=> tag \in {kindToTag(k) : k \in PRNType}
           /\ looked.ok => looked.v \in PRNType

\* the tag of UserToken was looked up and gave UserToken
C8_Witness ==
    /\ tag = "user_token"
    /\ looked = Ok("UserToken")

-----------------------------------------------------------------------------
(* Properties of CliCommands::run, checked under SpecCli *)

\* the texts written to stderr by the i-th print
Texts(i) == [j \in 1..Len(stderr[i]) |-> stderr[i][j].text]

\* C10: an API subcommand with the API key or the organization name missing
\* is never started: one report is printed, the header followed by every
\* missing flag, --api-key first, and the process exits with 65; with both
\* present nothing is printed and the subcommand runs; upgrade runs unchecked.
C10_GlobalFlagCheck ==
    LET noKey == global_options.api_key = None
        noOrg == global_options.organization_name = None
    IN  pc # "main" =>
            IF command \in ApiCommand /\ (noKey \/ noOrg)
            THEN /\ pc = "exited"
                 /\ exit_code = 65
                 /\ started = <<>>
                 /\ Len(stderr) = 1
                 /\ Texts(1) =
                       <<"error: ",
                         "The following arguments are required at the global level:\r\n">>
                       \o (IF noKey THEN <<"\t--api-key\r\n">> ELSE <<>>)
                       \o (IF noOrg THEN <<"\t--organization-name\r\n">> ELSE <<>>)
                       \o <<"\r\n">>
            ELSE /\ pc \in {"returned_Ok", "returned_Err"}
                 /\ exit_code = None
                 /\ started = <<command>>
                 /\ stderr = <<>>

\* both flags were missing and the process exited after one report
C10_Witness ==
    /\ pc = "exited"
    /\ command \in ApiCommand
    /\ global_options.api_key = None
    /\ global_options.organization_name = None
    /\ Len(stderr) = 1

====
